---------------------------- MODULE Spec2Model ----------------------------
(***************************************************************************)
(* A model of package imgconv's format layer (format.go): the extension    *)
(* registry (formatExts, FormatFromExtension, StringOfFormat, setFormat),  *)
(* the functional options over encodeConfig, and FormatOption.Encode with  *)
(* its per-format codec dispatch.  The codecs themselves are external: a   *)
(* codec invocation is recorded with the arguments it received, and its    *)
(* outcome (bytes written, error returned) is nondeterministic.            *)
(***************************************************************************)
EXTENDS Integers, Sequences, FiniteSets, TLC

VARIABLES
    last,                 \* the last registry call: its arguments and results
    defaultEncodeConfig,  \* the package-level variable of format.go:85
    pixels,               \* heap: the Pix backing array of each goroutine's image
    pc,                   \* position of each goroutine inside Encode
    fo,                   \* receiver *FormatOption of each Encode call
    img,                  \* the img argument (image header; Pix is a heap address)
    cfg,                  \* the local variable cfg of each Encode call
    idx,                  \* index of the range loop over f.EncodeOption
    sink,                 \* the bytes held by the io.Writer w of each call
    log,                  \* codec invocations made by each call, with their outcome
    ret                   \* the error returned by each call

vars == <<last, defaultEncodeConfig, pixels, pc, fo, img, cfg, idx, sink, log, ret>>

(***************************************************************************)
(* Bounds of the model.                                                    *)
(***************************************************************************)
MaxOpts == 2          \* longest option list given to an Encode call
MaxDx == 2            \* widest image rectangle
MaxDy == 1            \* tallest image rectangle
MaxWrite == 1         \* chunks a codec writes for a complete encoding
NumGoroutines == 2    \* concurrent Encode calls

nil == "nil"

(***************************************************************************)
(* Format and the extension table.                                         *)
(***************************************************************************)
JPEG == 0
PNG == 1
GIF == 2
TIFF == 3
BMP == 4
PDF == 5

\* Format is an int: the values handed to the functions include ones outside
\* the six constants (-1 is what a failed FormatFromExtension returns).
FormatValues == (JPEG - 1)..(PDF + 1)

formatExts_NoPDF ==
    (JPEG :> <<"j", "p", "g">>) @@ (PNG :> <<"p", "n", "g">>) @@
    (GIF :> <<"g", "i", "f">>) @@ (TIFF :> <<"t", "i", "f">>) @@
    (BMP :> <<"b", "m", "p">>)

formatExts ==
    (JPEG :> <<"j", "p", "g">>) @@ (PNG :> <<"p", "n", "g">>) @@
    (GIF :> <<"g", "i", "f">>) @@ (TIFF :> <<"t", "i", "f">>) @@
    (BMP :> <<"b", "m", "p">>) @@ (PDF :> <<"p", "d", "f">>)

ErrUnsupported == "unsupported image format"
ErrNoSuchFormat == "no such format"

(***************************************************************************)
(* strings.ToLower.  A string is a sequence of characters.  Upper-case     *)
(* ASCII letters map to lower case; of the non-ASCII letters, U+0130 maps  *)
(* to "i" and U+212A to "k" (unicode.ToLower); every other character is    *)
(* left as it is.                                                          *)
(***************************************************************************)
UpperLetters ==
    <<"A", "B", "C", "D", "E", "F", "G", "H", "I", "J", "K", "L", "M",
      "N", "O", "P", "Q", "R", "S", "T", "U", "V", "W", "X", "Y", "Z">>
LowerLetters ==
    <<"a", "b", "c", "d", "e", "f", "g", "h", "i", "j", "k", "l", "m",
      "n", "o", "p", "q", "r", "s", "t", "u", "v", "w", "x", "y", "z">>

toLowerRune(c) ==
    IF \E k \in DOMAIN UpperLetters : UpperLetters[k] = c
    THEN LowerLetters[CHOOSE k \in DOMAIN UpperLetters : UpperLetters[k] = c]
    ELSE IF c = "U+0130" THEN "i"
    ELSE IF c = "U+212A" THEN "k"
    ELSE c

ToLower(s) == [k \in 1..Len(s) |-> toLowerRune(s[k])]

(***************************************************************************)
(* FormatFromExtension.  Go iterates a map in an unspecified order: order  *)
(* is the sequence in which this call's range loop visits the keys.        *)
(***************************************************************************)
IterationOrders ==
    {o \in [1..Cardinality(DOMAIN formatExts) -> DOMAIN formatExts] :
        \A a, b \in DOMAIN o : a # b => o[a] # o[b]}

RECURSIVE rangeFormatExts(_, _, _)
rangeFormatExts(ext, order, k) ==
    IF k > Len(order) THEN [fmt |-> -1, err |-> ErrUnsupported]
    ELSE IF ext = formatExts[order[k]] THEN [fmt |-> order[k], err |-> nil]
    ELSE rangeFormatExts(ext, order, k + 1)

FormatFromExtension_NoLower(ext, order) == rangeFormatExts(ext, order, 1)

FormatFromExtension(ext, order) == rangeFormatExts(ToLower(ext), order, 1)

StringOfFormat(f) ==
    IF f \in DOMAIN formatExts
    THEN [str |-> formatExts[f], err |-> nil]
    ELSE [str |-> <<>>, err |-> ErrNoSuchFormat]

\* The zero FormatOption: the named result fo of setFormat before assignment.
ZeroFormatOption == [Format |-> 0, EncodeOption |-> <<>>]

setFormat(filename, options, order) ==
    LET r == FormatFromExtension(filename, order)
    IN  IF r.err # nil
        THEN [fo |-> ZeroFormatOption, err |-> r.err]
        ELSE [fo |-> [Format |-> r.fmt, EncodeOption |-> options], err |-> nil]

(***************************************************************************)
(* encodeConfig, its package-level default and the option constructors.    *)
(* An EncodeOption is a closure over one argument: fn names the            *)
(* constructor that made it, arg the value it closed over.                 *)
(***************************************************************************)
TIFFUncompressed == 0
TIFFDeflate == 1
TIFFLZW == 2
TIFFCCITTGroup3 == 3
TIFFCCITTGroup4 == 4
TIFFJPEG == 5

\* png.DefaultCompression, as named in the initializer of defaultEncodeConfig.
PNGDefaultCompression == 0

InitialEncodeConfig ==
    [Quality             |-> 75,
     gifNumColors        |-> 256,
     gifQuantizer        |-> nil,
     gifDrawer           |-> nil,
     pngCompressionLevel |-> PNGDefaultCompression,
     tiffCompressionType |-> TIFFLZW]

Quality(quality) == [fn |-> "Quality", arg |-> quality]
GIFNumColors(numColors) == [fn |-> "GIFNumColors", arg |-> numColors]
GIFQuantizer(quantizer) == [fn |-> "GIFQuantizer", arg |-> quantizer]
GIFDrawer(drawer) == [fn |-> "GIFDrawer", arg |-> drawer]
PNGCompressionLevel(level) == [fn |-> "PNGCompressionLevel", arg |-> level]
TIFFCompressionType(compressionType) ==
    [fn |-> "TIFFCompressionType", arg |-> compressionType]

callOption_GIFWritesQuality(option, c) ==
    CASE option.fn = "Quality" -> [c EXCEPT !.Quality = option.arg]
      [] option.fn = "GIFNumColors" -> [c EXCEPT !.Quality = option.arg]
      [] option.fn = "GIFQuantizer" -> [c EXCEPT !.gifQuantizer = option.arg]
      [] option.fn = "GIFDrawer" -> [c EXCEPT !.gifDrawer = option.arg]
      [] option.fn = "PNGCompressionLevel" ->
            [c EXCEPT !.pngCompressionLevel = option.arg]
      [] option.fn = "TIFFCompressionType" ->
            [c EXCEPT !.tiffCompressionType = option.arg]

\* option(&cfg): the body of the closure, applied to the configuration c.
callOption(option, c) ==
    CASE option.fn = "Quality" -> [c EXCEPT !.Quality = option.arg]
      [] option.fn = "GIFNumColors" -> [c EXCEPT !.gifNumColors = option.arg]
      [] option.fn = "GIFQuantizer" -> [c EXCEPT !.gifQuantizer = option.arg]
      [] option.fn = "GIFDrawer" -> [c EXCEPT !.gifDrawer = option.arg]
      [] option.fn = "PNGCompressionLevel" ->
            [c EXCEPT !.pngCompressionLevel = option.arg]
      [] option.fn = "TIFFCompressionType" ->
            [c EXCEPT !.tiffCompressionType = option.arg]

TIFFCompression_value_DefaultLZW(c) ==
    CASE c = TIFFLZW -> "tiff.LZW"
      [] c = TIFFDeflate -> "tiff.Deflate"
      [] c = TIFFCCITTGroup3 -> "tiff.CCITTGroup3"
      [] c = TIFFCCITTGroup4 -> "tiff.CCITTGroup4"
      [] c = TIFFJPEG -> "tiff.JPEG"
      [] OTHER -> "tiff.LZW"

\* TIFFCompression.value: the codec's native constant, by name.
TIFFCompression_value(c) ==
    CASE c = TIFFLZW -> "tiff.LZW"
      [] c = TIFFDeflate -> "tiff.Deflate"
      [] c = TIFFCCITTGroup3 -> "tiff.CCITTGroup3"
      [] c = TIFFCCITTGroup4 -> "tiff.CCITTGroup4"
      [] c = TIFFJPEG -> "tiff.JPEG"
      [] OTHER -> "tiff.Uncompressed"

(***************************************************************************)
(* Images.  An image header has a dynamic type, the heap address of its    *)
(* Pix array, a Stride and a Rect; Pix[i] of the code is heap[Pix][i + 1]. *)
(***************************************************************************)
RectEmpty(r) == r.Min.X >= r.Max.X \/ r.Min.Y >= r.Max.Y
RectDx(r) == r.Max.X - r.Min.X

\* (*image.NRGBA).Opaque, as called at the JPEG case.
NRGBAOpaque(p, heap) ==
    IF RectEmpty(p.Rect) THEN TRUE
    ELSE \A y \in p.Rect.Min.Y..(p.Rect.Max.Y - 1) :
            LET i0 == 3 + (y - p.Rect.Min.Y) * p.Stride
                i1 == RectDx(p.Rect) * 4 + (y - p.Rect.Min.Y) * p.Stride
            IN  \A i \in i0..(i1 - 1) :
                    (i - i0) % 4 = 0 => heap[p.Pix][i + 1] = 255

jpegSource_AnyNRGBA(im, heap) ==
    IF im.type = "NRGBA"
    THEN [type |-> "RGBA", Pix |-> im.Pix, Stride |-> im.Stride, Rect |-> im.Rect]
    ELSE im

\* The image handed to jpeg.Encode: an *image.RGBA over the same Pix when img
\* is an opaque *image.NRGBA, img itself otherwise.
jpegSource(im, heap) ==
    IF im.type = "NRGBA" /\ NRGBAOpaque(im, heap)
    THEN [type |-> "RGBA", Pix |-> im.Pix, Stride |-> im.Stride, Rect |-> im.Rect]
    ELSE im

(***************************************************************************)
(* The switch of Encode: the codec invoked for a Format, with exactly the  *)
(* arguments the code passes it; codec "none" when no case matches.        *)
(***************************************************************************)
codecCall_UnknownAsJPEG(format, im, heap, c) ==
    CASE format = PNG ->
            [codec |-> "png.Encoder.Encode", img |-> im,
             opts |-> [CompressionLevel |-> c.pngCompressionLevel]]
      [] format = GIF ->
            [codec |-> "gif.Encode", img |-> im,
             opts |-> [NumColors |-> c.gifNumColors,
                       Quantizer |-> c.gifQuantizer,
                       Drawer    |-> c.gifDrawer]]
      [] format = TIFF ->
            [codec |-> "tiff.Encode", img |-> im,
             opts |-> [Compression |-> TIFFCompression_value(c.tiffCompressionType),
                       Predictor   |-> TRUE]]
      [] format = BMP -> [codec |-> "bmp.Encode", img |-> im]
      [] format = PDF ->
            [codec |-> "pdf.Encode", img |-> <<im>>,
             opts |-> [Quality |-> c.Quality]]
      [] OTHER ->
            [codec |-> "jpeg.Encode", img |-> jpegSource(im, heap),
             opts |-> [Quality |-> c.Quality]]

codecCall_PNGQuality(format, im, heap, c) ==
    CASE format = JPEG ->
            [codec |-> "jpeg.Encode", img |-> jpegSource(im, heap),
             opts |-> [Quality |-> c.Quality]]
      [] format = PNG ->
            [codec |-> "png.Encoder.Encode", img |-> im,
             opts |-> [CompressionLevel |-> c.Quality]]
      [] format = GIF ->
            [codec |-> "gif.Encode", img |-> im,
             opts |-> [NumColors |-> c.gifNumColors,
                       Quantizer |-> c.gifQuantizer,
                       Drawer    |-> c.gifDrawer]]
      [] format = TIFF ->
            [codec |-> "tiff.Encode", img |-> im,
             opts |-> [Compression |-> TIFFCompression_value(c.tiffCompressionType),
                       Predictor   |-> TRUE]]
      [] format = BMP -> [codec |-> "bmp.Encode", img |-> im]
      [] format = PDF ->
            [codec |-> "pdf.Encode", img |-> <<im>>,
             opts |-> [Quality |-> c.Quality]]
      [] OTHER -> [codec |-> "none"]

codecCall(format, im, heap, c) ==
    CASE format = JPEG ->
            [codec |-> "jpeg.Encode", img |-> jpegSource(im, heap),
             opts |-> [Quality |-> c.Quality]]
      [] format = PNG ->
            [codec |-> "png.Encoder.Encode", img |-> im,
             opts |-> [CompressionLevel |-> c.pngCompressionLevel]]
      [] format = GIF ->
            [codec |-> "gif.Encode", img |-> im,
             opts |-> [NumColors |-> c.gifNumColors,
                       Quantizer |-> c.gifQuantizer,
                       Drawer    |-> c.gifDrawer]]
      [] format = TIFF ->
            [codec |-> "tiff.Encode", img |-> im,
             opts |-> [Compression |-> TIFFCompression_value(c.tiffCompressionType),
                       Predictor   |-> TRUE]]
      [] format = BMP -> [codec |-> "bmp.Encode", img |-> im]
      [] format = PDF ->
            [codec |-> "pdf.Encode", img |-> <<im>>,
             opts |-> [Quality |-> c.Quality]]
      [] OTHER -> [codec |-> "none"]

encodeReturn_Reinterpreted(call, codecErr) ==
    IF call.codec = "none" THEN ErrUnsupported
    ELSE IF codecErr = nil THEN nil ELSE ErrUnsupported

\* What Encode returns: the codec's own result in each case of the switch,
\* the unsupported-format error after it.
encodeReturn(call, codecErr) ==
    IF call.codec = "none" THEN ErrUnsupported ELSE codecErr

\* A codec is external.  It either writes the complete encoding and returns
\* nil, or writes some prefix of it and returns one of its errors.
Chunks(k) == [j \in 1..k |-> j]
CodecOutcomes(errs) ==
    {[wrote |-> Chunks(MaxWrite), err |-> nil]} \cup
    {[wrote |-> Chunks(k), err |-> e] : k \in 0..MaxWrite, e \in errs}

cfgPointer_Global(g) == <<"global", 0>>

\* The address of the configuration the options mutate and the switch reads:
\* cfg is a copy of the package-level value, local to the call of goroutine g.
cfgPointer(g) == <<"local", g>>

Load(ptr) == IF ptr[1] = "global" THEN defaultEncodeConfig ELSE cfg[ptr[2]]

(***************************************************************************)
(* Inputs.                                                                 *)
(***************************************************************************)
Goroutines == 1..NumGoroutines

Words ==
    {<<"j", "p", "g">>, <<"p", "n", "g">>, <<"g", "i", "f">>, <<"t", "i", "f">>,
     <<"b", "m", "p">>, <<"p", "d", "f">>, <<"j", "p", "e", "g">>,
     <<"t", "i", "f", "f">>, <<"t", "x", "t">>, <<"w", "e", "b", "p">>,
     <<>>, <<"j", "p">>, <<".", "j", "p", "g">>, <<"j", "p", "g", "2">>}

upperOf(c) ==
    IF \E k \in DOMAIN LowerLetters : LowerLetters[k] = c
    THEN UpperLetters[CHOOSE k \in DOMAIN LowerLetters : LowerLetters[k] = c]
    ELSE c

\* Every spelling of the word w in upper and lower case, and with the
\* non-ASCII capitals in place of "i".
Spellings(w) ==
    {s \in [1..Len(w) -> {w[k] : k \in 1..Len(w)} \cup {upperOf(w[k]) : k \in 1..Len(w)}
                          \cup {"U+0130"}] :
        \A k \in 1..Len(w) :
            \/ s[k] \in {w[k], upperOf(w[k])}
            \/ w[k] = "i" /\ s[k] = "U+0130"}

ExtInputs == UNION {Spellings(w) : w \in Words}

OptionLists(options, n) == UNION {[1..k -> options] : k \in 0..n}

QualityArgs == {0, 50, 90, 500}
TIFFArgs == (TIFFUncompressed - 1)..(TIFFJPEG + 1)
AllOptions ==
    {Quality(q) : q \in QualityArgs} \cup
    {GIFNumColors(n) : n \in {16, 300}} \cup
    {GIFQuantizer(q) : q \in {nil, "quantizer"}} \cup
    {GIFDrawer(d) : d \in {nil, "draw.FloydSteinberg"}} \cup
    {PNGCompressionLevel(l) : l \in {-1, -3}} \cup
    {TIFFCompressionType(t) : t \in TIFFArgs}

AlphaValues == {0, 254, 255}

\* The Pix array of a w x h image with the given stride: four bytes a pixel,
\* the fourth its alpha; the bytes between a row's end and the stride are 0.
PixOf(w, h, stride, alpha) ==
    [k \in 1..(stride * h) |->
        LET i == k - 1
            x == (i % stride) \div 4
            y == i \div stride
        IN  IF x >= w THEN 0
            ELSE IF i % 4 = 3 THEN alpha[y * w + x]
            ELSE 16]

ImagesOfType(t) ==
    UNION {
        {[type |-> t, w |-> w, h |-> h, min |-> m, stride |-> 4 * w + 4 * pad,
          pix |-> PixOf(w, h, 4 * w + 4 * pad, a)] :
            a \in [0..(w * h - 1) -> AlphaValues]} :
        w \in 0..MaxDx, h \in 0..MaxDy, m \in {0, 1}, pad \in {0, 1}}

Images == ImagesOfType("NRGBA") \cup ImagesOfType("RGBA")

OneImage ==
    {[type |-> "NRGBA", w |-> 1, h |-> 1, min |-> 0, stride |-> 4,
      pix |-> <<16, 16, 16, 255>>]}

Header(i, addr) ==
    [type |-> i.type, Pix |-> addr, Stride |-> i.stride,
     Rect |-> [Min |-> [X |-> i.min, Y |-> i.min],
               Max |-> [X |-> i.min + i.w, Y |-> i.min + i.h]]]

SinkContents == {<<>>, <<0>>}
CodecErrors == {"codec error"}

(***************************************************************************)
(* The state machine.                                                      *)
(***************************************************************************)
NoCall == [op |-> "none"]
NoImage == [type |-> "none"]
NoConfig == [unset |-> TRUE]

Init ==
    /\ last = NoCall
    /\ defaultEncodeConfig = InitialEncodeConfig
    /\ pixels = [g \in Goroutines |-> <<>>]
    /\ pc = [g \in Goroutines |-> "idle"]
    /\ fo = [g \in Goroutines |-> ZeroFormatOption]
    /\ img = [g \in Goroutines |-> NoImage]
    /\ cfg = [g \in Goroutines |-> NoConfig]
    /\ idx = [g \in Goroutines |-> 0]
    /\ sink = [g \in Goroutines |-> <<>>]
    /\ log = [g \in Goroutines |-> <<>>]
    /\ ret = [g \in Goroutines |-> nil]

encodeVars == <<defaultEncodeConfig, pixels, pc, fo, img, cfg, idx, sink, log, ret>>

CallFormatFromExtension ==
    /\ last = NoCall
    /\ \E ext \in ExtInputs, order \in IterationOrders :
          LET r == FormatFromExtension(ext, order)
          IN  last' = [op |-> "FormatFromExtension", ext |-> ext,
                       fmt |-> r.fmt, err |-> r.err]
    /\ UNCHANGED encodeVars

CallStringOfFormat ==
    /\ last = NoCall
    /\ \E f \in FormatValues :
          LET r == StringOfFormat(f)
          IN  last' = [op |-> "StringOfFormat", f |-> f,
                       str |-> r.str, err |-> r.err]
    /\ UNCHANGED encodeVars

CallSetFormat ==
    /\ last = NoCall
    /\ \E filename \in ExtInputs, options \in {<<>>, <<Quality(50)>>},
          order \in IterationOrders :
          LET r == setFormat(filename, options, order)
          IN  last' = [op |-> "setFormat", ext |-> filename, options |-> options,
                       fo |-> r.fo, err |-> r.err]
    /\ UNCHANGED encodeVars

\* The caller of a registry function is done with its results.
Discard ==
    /\ last # NoCall
    /\ last' = NoCall
    /\ UNCHANGED encodeVars

\* A caller enters f.Encode(w, img) on goroutine g.
Call(g, formats, lists, images) ==
    /\ pc[g] = "idle"
    /\ \E f \in formats, l \in lists, i \in images, w \in SinkContents :
          /\ fo' = [fo EXCEPT ![g] = [Format |-> f, EncodeOption |-> l]]
          /\ img' = [img EXCEPT ![g] = Header(i, g)]
          /\ pixels' = [pixels EXCEPT ![g] = i.pix]
          /\ sink' = [sink EXCEPT ![g] = w]
    /\ pc' = [pc EXCEPT ![g] = "copy"]
    /\ UNCHANGED <<last, defaultEncodeConfig, cfg, idx, log, ret>>

\* cfg := defaultEncodeConfig
CopyDefault(g) ==
    /\ pc[g] = "copy"
    /\ cfg' = [cfg EXCEPT ![g] = defaultEncodeConfig]
    /\ idx' = [idx EXCEPT ![g] = 1]
    /\ pc' = [pc EXCEPT ![g] = "range"]
    /\ UNCHANGED <<last, defaultEncodeConfig, pixels, fo, img, sink, log, ret>>

\* One iteration of the range loop: option(&cfg)
ApplyOption(g) ==
    /\ pc[g] = "range"
    /\ idx[g] <= Len(fo[g].EncodeOption)
    /\ LET ptr == cfgPointer(g)
           new == callOption(fo[g].EncodeOption[idx[g]], Load(ptr))
       IN  /\ defaultEncodeConfig' =
                 IF ptr[1] = "global" THEN new ELSE defaultEncodeConfig
           /\ cfg' = IF ptr[1] = "global" THEN cfg ELSE [cfg EXCEPT ![ptr[2]] = new]
    /\ idx' = [idx EXCEPT ![g] = @ + 1]
    /\ UNCHANGED <<last, pixels, pc, fo, img, sink, log, ret>>

\* The switch on f.Format and the return.
Dispatch(g, errs) ==
    /\ pc[g] = "range"
    /\ idx[g] > Len(fo[g].EncodeOption)
    /\ LET call == codecCall(fo[g].Format, img[g], pixels, Load(cfgPointer(g)))
       IN  IF call.codec # "none"
           THEN \E out \in CodecOutcomes(errs) :
                   /\ log' = [log EXCEPT ![g] =
                                 Append(@, [call |-> call, wrote |-> out.wrote,
                                            err |-> out.err])]
                   /\ sink' = [sink EXCEPT ![g] = @ \o out.wrote]
                   /\ ret' = [ret EXCEPT ![g] = encodeReturn(call, out.err)]
           ELSE /\ ret' = [ret EXCEPT ![g] = encodeReturn(call, nil)]
                /\ UNCHANGED <<log, sink>>
    /\ pc' = [pc EXCEPT ![g] = "done"]
    /\ UNCHANGED <<last, defaultEncodeConfig, pixels, fo, img, cfg, idx>>

\* The caller has the result; the call's frame is gone.
Return(g) ==
    /\ pc[g] = "done"
    /\ pc' = [pc EXCEPT ![g] = "idle"]
    /\ fo' = [fo EXCEPT ![g] = ZeroFormatOption]
    /\ img' = [img EXCEPT ![g] = NoImage]
    /\ pixels' = [pixels EXCEPT ![g] = <<>>]
    /\ cfg' = [cfg EXCEPT ![g] = NoConfig]
    /\ idx' = [idx EXCEPT ![g] = 0]
    /\ sink' = [sink EXCEPT ![g] = <<>>]
    /\ log' = [log EXCEPT ![g] = <<>>]
    /\ ret' = [ret EXCEPT ![g] = nil]
    /\ UNCHANGED <<last, defaultEncodeConfig>>

\* The registry functions, called with any argument.
NextRegistry ==
    \/ CallFormatFromExtension
    \/ CallStringOfFormat
    \/ CallSetFormat
    \/ Discard
SpecRegistry == Init /\ [][NextRegistry]_vars

\* One Encode call at a time, any Format, any list of options.
NextOptions ==
    \/ Call(1, FormatValues, OptionLists(AllOptions, MaxOpts), OneImage)
    \/ CopyDefault(1)
    \/ ApplyOption(1)
    \/ Dispatch(1, CodecErrors)
    \/ Return(1)
SpecOptions == Init /\ [][NextOptions]_vars

\* One Encode call at a time, any image.
NextImages ==
    \/ Call(1, {JPEG, PNG, PDF + 1}, OptionLists({Quality(50)}, 1), Images)
    \/ CopyDefault(1)
    \/ ApplyOption(1)
    \/ Dispatch(1, CodecErrors)
    \/ Return(1)
SpecImages == Init /\ [][NextImages]_vars

\* Encode calls on every goroutine, interleaved statement by statement.
NextConcurrent ==
    \E g \in Goroutines :
        \/ Call(g, {JPEG, GIF},
                {<<>>, <<Quality(50)>>, <<Quality(90), GIFNumColors(16)>>}, OneImage)
        \/ CopyDefault(g)
        \/ ApplyOption(g)
        \/ Dispatch(g, {})
        \/ Return(g)
SpecConcurrent == Init /\ [][NextConcurrent]_vars

(***************************************************************************)
(* The documented values the claims are stated against, written out        *)
(* independently of the definitions above.                                 *)
(***************************************************************************)
EncodeCapable == {JPEG, PNG, GIF, TIFF, BMP, PDF}

\* The canonical extension of the Format k - 1.
CanonicalExts ==
    <<  <<"j", "p", "g">>, <<"p", "n", "g">>, <<"g", "i", "f">>,
        <<"t", "i", "f">>, <<"b", "m", "p">>, <<"p", "d", "f">>  >>

DocumentedDefaults ==
    [Quality |-> 75, gifNumColors |-> 256, gifQuantizer |-> "nil",
     gifDrawer |-> "nil", pngCompressionLevel |-> 0, tiffCompressionType |-> 2]

ConfigFields == DOMAIN DocumentedDefaults

\* The field an option constructor is documented to own.
FieldOf(fn) ==
    CASE fn = "Quality" -> "Quality"
      [] fn = "GIFNumColors" -> "gifNumColors"
      [] fn = "GIFQuantizer" -> "gifQuantizer"
      [] fn = "GIFDrawer" -> "gifDrawer"
      [] fn = "PNGCompressionLevel" -> "pngCompressionLevel"
      [] fn = "TIFFCompressionType" -> "tiffCompressionType"

\* The argument of the last option of the list that targets the field, or
\* the documented default.
LastWins(options, field) ==
    LET at == {k \in 1..Len(options) : FieldOf(options[k].fn) = field}
    IN  IF at = {} THEN DocumentedDefaults[field]
        ELSE options[CHOOSE k \in at : \A j \in at : j <= k].arg

ExpectedConfig(options) == [field \in ConfigFields |-> LastWins(options, field)]

\* The configuration fields each format's codec understands.
OwnedFields(format) ==
    CASE format \in {JPEG, PDF} -> {"Quality"}
      [] format = GIF -> {"gifNumColors", "gifQuantizer", "gifDrawer"}
      [] format = PNG -> {"pngCompressionLevel"}
      [] format = TIFF -> {"tiffCompressionType"}
      [] OTHER -> {}

CodecOf(format) ==
    CASE format = JPEG -> "jpeg.Encode"
      [] format = PNG -> "png.Encoder.Encode"
      [] format = GIF -> "gif.Encode"
      [] format = TIFF -> "tiff.Encode"
      [] format = BMP -> "bmp.Encode"
      [] format = PDF -> "pdf.Encode"

NativeCompression ==
    <<"tiff.Uncompressed", "tiff.Deflate", "tiff.LZW", "tiff.CCITTGroup3",
      "tiff.CCITTGroup4", "tiff.JPEG">>
ExpectedCompression(x) ==
    IF x \in 0..5 THEN NativeCompression[x + 1] ELSE "tiff.Uncompressed"

Finished(g) == pc[g] = "done"
Dispatching(g) == pc[g] = "range" /\ pc'[g] = "done"

(***************************************************************************)
(* C1.  The registry is a bijection on exactly the six encode-capable      *)
(* formats: StringOfFormat(F) succeeds if and only if F is one of JPEG,    *)
(* PNG, GIF, TIFF, BMP, PDF (so it fails for -1), and for each of the six, *)
(* FormatFromExtension(StringOfFormat(F)) returns F with no error,         *)
(* whatever the iteration order of the table.                              *)
(***************************************************************************)
C1_RegistryBijection ==
    last.op = "StringOfFormat" =>
        /\ last.err = nil <=> last.f \in EncodeCapable
        /\ last.f = -1 => last.err # nil
        /\ last.f \in EncodeCapable =>
              /\ last.str = CanonicalExts[last.f + 1]
              /\ \A order \in IterationOrders :
                    FormatFromExtension(last.str, order) = [fmt |-> last.f, err |-> nil]

C1_Witness ==
    /\ last.op = "StringOfFormat"
    /\ last.f = PDF
    /\ last.err = nil
    /\ last.str = <<"p", "d", "f">>

C3_LongFormSynonyms ==
    last.op = "FormatFromExtension" =>
        /\ ToLower(last.ext) = <<"j", "p", "e", "g">> =>
              last.fmt = JPEG /\ last.err = nil
        /\ ToLower(last.ext) = <<"t", "i", "f", "f">> =>
              last.fmt = TIFF /\ last.err = nil

C5_DefaultIsolation ==
    /\ defaultEncodeConfig = DocumentedDefaults
    /\ \A g \in Goroutines : Finished(g) =>
          LET expected == ExpectedConfig(fo[g].EncodeOption)
              call == log[g][1].call
          IN  /\ cfg[g] = expected
              /\ fo[g].Format = JPEG => call.opts = [Quality |-> expected.Quality]
              /\ fo[g].Format = GIF =>
                    call.opts = [NumColors |-> expected.gifNumColors,
                                 Quantizer |-> expected.gifQuantizer,
                                 Drawer    |-> expected.gifDrawer]

C5_Witness ==
    /\ Finished(1) /\ Finished(2)
    /\ fo[1].EncodeOption = <<Quality(50)>>
    /\ fo[2].EncodeOption = <<Quality(90), GIFNumColors(16)>>
    /\ fo[1].Format = GIF /\ fo[2].Format = JPEG
    /\ log[1][1].call.opts.NumColors = 256
    /\ log[2][1].call.opts.Quality = 90
    /\ defaultEncodeConfig.Quality = 75

(***************************************************************************)
(* C6.  Encode is total over the Format values: for JPEG, PNG, GIF, TIFF,  *)
(* BMP and PDF it invokes the codec of that format and no other; for any   *)
(* other value it invokes no codec, leaves the sink as it was and returns  *)
(* the unsupported-format error.                                           *)
(***************************************************************************)
C6_EncodeTotal ==
    /\ [](\A g \in Goroutines : Finished(g) =>
            IF fo[g].Format \in EncodeCapable
            THEN Len(log[g]) = 1 /\ log[g][1].call.codec = CodecOf(fo[g].Format)
            ELSE log[g] = <<>> /\ ret[g] = "unsupported image format")
    /\ [][\A g \in Goroutines :
            (Dispatching(g) /\ fo[g].Format \notin EncodeCapable) =>
                sink'[g] = sink[g]]_vars

C6_Witness ==
    /\ Finished(1)
    /\ fo[1].Format = PDF + 1
    /\ log[1] = <<>>
    /\ sink[1] = <<0>>
    /\ ret[1] = "unsupported image format"

(***************************************************************************)
(* C7.  For a supported format Encode invokes the selected codec exactly   *)
(* once and returns exactly what the codec returned, nil or the codec's    *)
(* own error; the sink holds what it held before followed by everything    *)
(* the codec wrote, also when the codec failed.                            *)
(***************************************************************************)
C7_CodecResultUnchanged ==
    /\ [](\A g \in Goroutines : (Finished(g) /\ fo[g].Format \in EncodeCapable) =>
            Len(log[g]) = 1 /\ ret[g] = log[g][1].err)
    /\ [][\A g \in Goroutines :
            (Dispatching(g) /\ fo[g].Format \in EncodeCapable) =>
                /\ log[g] = <<>>
                /\ Len(log'[g]) = 1
                /\ sink'[g] = sink[g] \o log'[g][1].wrote]_vars

C7_Witness ==
    /\ Finished(1)
    /\ fo[1].Format = BMP
    /\ Len(log[1]) = 1
    /\ log[1][1].err = "codec error"
    /\ log[1][1].wrote # <<>>
    /\ ret[1] = "codec error"
    /\ sink[1] = <<0>> \o log[1][1].wrote

(***************************************************************************)
(* C8.  In a JPEG Encode the codec receives the alpha-free view if and     *)
(* only if the source image is an NRGBA image whose every pixel is fully   *)
(* opaque; otherwise it receives the original image.  The view has the     *)
(* pixel buffer, stride and rectangle of the source, and the source's      *)
(* pixels are not modified during the call.                                *)
(***************************************************************************)
EveryPixelOpaque(g) ==
    \A x \in img[g].Rect.Min.X..(img[g].Rect.Max.X - 1),
       y \in img[g].Rect.Min.Y..(img[g].Rect.Max.Y - 1) :
        pixels[g][(y - img[g].Rect.Min.Y) * img[g].Stride
                  + (x - img[g].Rect.Min.X) * 4 + 3 + 1] = 255

C8_OpaqueView ==
    /\ [](\A g \in Goroutines : (Finished(g) /\ fo[g].Format = JPEG) =>
            LET given == log[g][1].call.img
                view == img[g].type = "NRGBA" /\ EveryPixelOpaque(g)
            IN  /\ given # img[g] <=> view
                /\ view => /\ given.type = "RGBA"
                           /\ given.Pix = img[g].Pix
                           /\ given.Stride = img[g].Stride
                           /\ given.Rect = img[g].Rect)
    /\ [][\A g \in Goroutines :
            (pc[g] # "idle" /\ pc'[g] # "idle") =>
                pixels'[g] = pixels[g] /\ img'[g] = img[g]]_vars

C8_Witness ==
    /\ Finished(1)
    /\ fo[1].Format = JPEG
    /\ img[1].type = "NRGBA"
    /\ img[1].Stride = 12
    /\ pixels[1] = <<16, 16, 16, 255, 16, 16, 16, 255, 0, 0, 0, 0>>
    /\ log[1][1].call.img.type = "RGBA"
    /\ log[1][1].call.img.Pix = img[1].Pix

(***************************************************************************)
(* C9.  Each codec invocation depends only on the configuration fields of  *)
(* its own format: JPEG and PDF receive Quality alone; GIF the colour      *)
(* count, quantizer and drawer; PNG the compression level; TIFF the        *)
(* translated compression with the predictor enabled; BMP no options.  An  *)
(* option that belongs to another format leaves the invocation unchanged.  *)
(***************************************************************************)
C9_OwnFieldsOnly ==
    \A g \in Goroutines : (Finished(g) /\ fo[g].Format \in EncodeCapable) =>
        LET call == log[g][1].call
            f == fo[g].Format
        IN  /\ f \in {JPEG, PDF} => call.opts = [Quality |-> cfg[g].Quality]
            /\ f = GIF => call.opts = [NumColors |-> cfg[g].gifNumColors,
                                       Quantizer |-> cfg[g].gifQuantizer,
                                       Drawer    |-> cfg[g].gifDrawer]
            /\ f = PNG => call.opts = [CompressionLevel |-> cfg[g].pngCompressionLevel]
            /\ f = TIFF =>
                  /\ DOMAIN call.opts = {"Compression", "Predictor"}
                  /\ call.opts.Predictor = TRUE
                  /\ call.opts.Compression =
                        ExpectedCompression(cfg[g].tiffCompressionType)
            /\ f = BMP => "opts" \notin DOMAIN call
            /\ \A o \in AllOptions :
                  FieldOf(o.fn) \notin OwnedFields(f) =>
                      codecCall(f, img[g], pixels, callOption(o, cfg[g])) = call

C9_Witness ==
    /\ Finished(1)
    /\ fo[1].Format = PNG
    /\ fo[1].EncodeOption = <<Quality(90)>>
    /\ cfg[1].Quality = 90
    /\ log[1][1].call.opts = [CompressionLevel |-> 0]

(***************************************************************************)
(* C10.  TIFFCompression.value maps each of the six schemes to the codec's *)
(* constant of the same scheme and every other value to Uncompressed; a    *)
(* TIFF Encode with TIFFCompressionType(x) for an unknown x invokes the    *)
(* TIFF codec with Uncompressed and returns the codec's result.            *)
(***************************************************************************)
C10_TIFFCompressionValue ==
    \A g \in Goroutines : (Finished(g) /\ fo[g].Format = TIFF) =>
        /\ Len(log[g]) = 1
        /\ log[g][1].call.codec = "tiff.Encode"
        /\ log[g][1].call.opts.Compression =
              ExpectedCompression(LastWins(fo[g].EncodeOption, "tiffCompressionType"))
        /\ ret[g] = log[g][1].err
        /\ \A x \in TIFFArgs : TIFFCompression_value(x) = ExpectedCompression(x)

C10_Witness ==
    /\ Finished(1)
    /\ fo[1].Format = TIFF
    /\ fo[1].EncodeOption = <<TIFFCompressionType(TIFFJPEG + 1)>>
    /\ log[1][1].call.opts.Compression = "tiff.Uncompressed"
    /\ ret[1] = nil

=============================================================================
